---- MODULE Spec2Model ----
(***************************************************************************)
(* A model of the pinned-mutex crate: PinnedMutex<T>, PinnedMutexGuard<T>  *)
(* and PinnedCondvar, the thin wrappers of src/lib.rs, src/std.rs and      *)
(* src/parking_lot.rs around a blocking lock engine and a wait engine.     *)
(*                                                                         *)
(* The wrappers hold no state of their own beyond the engine objects, so   *)
(* the state below is the engine state each wrapper call acts on (lock     *)
(* owner, poison flag, protected value, condvar queue) plus the position   *)
(* of every thread inside the wrapper calls.                               *)
(***************************************************************************)
EXTENDS Naturals, FiniteSets, Sequences

\* ------------------------------------------------------------------ bounds
NumThreads == 3
NumMutexes == 2
MaxValue == 2
MaxViews == 2
MaxRounds == 2

Threads == 1..NumThreads
Mutexes == 1..NumMutexes

NoThread == 0
NoMutex == 0
NoAddr == 0
NoValue == MaxValue + 1

\* rounds[t] of a thread whose program may lock any number of times.
Unlimited == NumThreads + MaxValue + 1

\* The three source files are three variants of the same wrapper.
Variants == {"lib", "std", "parking_lot"}

\* std::sync::Mutex poisons; parking_lot::Mutex does not.
Poisoning(v) == v \in {"lib", "std"}

\* Only src/parking_lot.rs defines PinnedCondvar.
HasCondvar(v) == v = "parking_lot"

\* Places a PinnedMutex may live at: two per mutex, disjoint between mutexes.
Places(m) == {2 * m - 1, 2 * m}

\* The wait_while conditions the callers pass (tests::cond_var passes is_zero).
Conditions == {"is_zero", "below_two"}
NoCondition == "none"

VARIABLES
    built,      \* the mutexes PinnedMutex::new has constructed
    variant,    \* which source file is in use
    addr,       \* addr[m]: the address PinnedMutex m currently lives at
    pinned,     \* pinned[m]: the caller holds Pin<&PinnedMutex> of m
    owner,      \* owner[m]: the thread the lock engine has granted m to
    poisoned,   \* poisoned[m]: std's poison flag of m
    value,      \* value[m]: the protected T (an integer counter)
    pc,         \* pc[t]: where thread t is
    mtx,        \* mtx[t]: the mutex t's call or guard is about
    cond,       \* cond[t]: the condition of t's wait_while call
    slept,      \* slept[t]: t's current wait call has suspended at least once
    local,      \* local[t]: the value t read through its guard, to write back
    last,       \* the call that returned in the latest step, if one did
    waiters,    \* the threads parked on the condvar's queue
    cvMutex,    \* the mutex the condvar is currently bound to
    incs,       \* incs[m]: how many increments of value[m] were completed
    firstAddr,  \* firstAddr[m]: the address the pinned view gave on first lock
    released,   \* released[m]: the contents when m's lock was last released,
                \* NoValue where that is not recorded
    unpin,      \* unpin[m]: the T of mutex m is Unpin
    views,      \* views[t]: the addresses of the live Pin<&T> of t's guard
    pinmut,     \* pinmut[t]: a Pin<&mut T> of t's guard is live
    rounds,     \* rounds[t]: the lock calls t's program has still to make
    missed      \* whether a notify call has found the condvar's queue empty

vars == <<built, variant, addr, pinned, owner, poisoned, value, pc, mtx, cond,
          slept, local, last, waiters, cvMutex, incs, firstAddr, released,
          unpin, views, pinmut, rounds, missed>>

mutexVars == <<built, variant, addr, pinned, owner, poisoned, value>>
threadVars == <<pc, mtx, cond, slept, local>>
condvarVars == <<waiters, cvMutex>>
historyVars == <<incs, firstAddr, released>>
viewVars == <<unpin, views, pinmut>>

\* What `last` records: who returned from which call, with which condition,
\* whether the call had suspended, and what the call found: a notify call
\* the number of waiters on the condvar, inc() the previous contents, get()
\* the contents.
Returned(t, op, c, b, n) ==
    [thread |-> t, op |-> op, cond |-> c, slept |-> b, found |-> n]
NoReturn == Returned(NoThread, "none", NoCondition, FALSE, 0)

\* ------------------------------------------------------------- predicates
\* The closure a caller passes to wait_while, applied to the contents.
condition(c, v) ==
    CASE c = "is_zero" -> v = 0
      [] c = "below_two" -> v < 2
      [] OTHER -> FALSE

\* A thread that owns a live PinnedMutexGuard of m.
HasGuard(t, m) == pc[t] \in {"held", "check"} /\ mtx[t] = m

\* The address of T inside the mutex: the guard derefs to the data the
\* mutex at addr[m] holds inline.
DataAddr(a) == a

\* Pin<&T> of as_ref / as_mut: the address of the guarded T.
as_ref(t) == DataAddr(addr[mtx[t]])

\* as_ref and as_mut exist in std.rs and parking_lot.rs; lib.rs has neither.
HasPinnedViews(v) == v \in {"std", "parking_lot"}

\* The contents found at address a: those of the mutex whose T lives there.
At(a) ==
    IF \E m \in built : DataAddr(addr[m]) = a
      THEN value[CHOOSE m \in built : DataAddr(addr[m]) = a]
      ELSE NoValue

\* &self: the guard can be borrowed shared while no Pin<&mut T> of it lives.
SharedBorrowOk(t) == ~pinmut[t]

\* An as_mut declared on &self: it only excludes another mutable view.
ExclusiveBorrowOk_Shared(t) == ~pinmut[t]

\* &mut self: the guard can be borrowed exclusively, or moved, while no view
\* of it lives.
ExclusiveBorrowOk(t) == views[t] = <<>> /\ ~pinmut[t]

\* A DerefMut implemented for every T.
DerefMutAvailable_Unbounded(m) == TRUE

\* impl<T: Unpin> DerefMut: &mut T is to be had only of an Unpin T.
DerefMutAvailable(m) == unpin[m]

\* ---------------------------------------------------------------- engine
\* A lock that never blocks: it grants the mutex whoever owns it.
RawLockFree_NeverBlocks(m) == TRUE

\* Mutex::lock blocks until the lock is free.
RawLockFree(m) == owner[m] = NoThread

\* What the holder of m leaves behind when its guard goes: the contents as
\* they are at the release.
Left(m) ==
    IF released[m] = NoValue THEN released ELSE [released EXCEPT ![m] = value[m]]

\* A guard that goes without unlocking, as one passed to mem::forget would.
RawUnlock_Leaked(m) == owner

\* MutexGuard's drop: the lock is released.
RawUnlock(m) == [owner EXCEPT ![m] = NoThread]

\* A lock call that returns without having taken the lock.
RawLock_NotTaken(t, m) == owner

\* Mutex::lock granting the lock to t.
RawLock(t, m) == [owner EXCEPT ![m] = t]

\* A lock that recovers the guard from a poisoned mutex instead of failing.
LockIsErr_Recovered(m) == FALSE

\* std's LockResult is Err exactly when the mutex is poisoned; parking_lot's
\* lock returns the guard itself.
LockIsErr(m) == Poisoning(variant) /\ poisoned[m]

\* A value that may still be moved after it was pinned.
CanRelocate_Pinned(m) == TRUE

\* A value moves freely until it is pinned; Pin<&Self> forbids it afterwards.
CanRelocate(m) == ~pinned[m]

\* A wait that gives the lock up without queueing the caller on the condvar.
Park_NotQueued(t) == waiters

\* Condvar::wait parks the caller on the condvar's queue.
Park(t) == waiters \cup {t}

\* A condvar that takes waiters of any mutex at any time.
BadMutex_Never(m) == FALSE

\* parking_lot's Condvar refuses a second mutex while it has waiters.
BadMutex(m) == cvMutex # NoMutex /\ cvMutex # m

\* The condvar forgets its mutex when its queue empties.
Rebind(ws) == IF ws = {} THEN NoMutex ELSE cvMutex

\* A notify_one that unparks the whole queue.
WakeOne_Broadcast(ws) == {ws}

\* The sets of waiters one notify_one call may unpark.
WakeOne(ws) == IF ws = {} THEN {{}} ELSE {{w} : w \in ws}

\* A notify_all that unparks a single waiter.
WakeAll_Single(ws) == IF ws = {} THEN {{}} ELSE {{w} : w \in ws}

\* The sets of waiters one notify_all call may unpark.
WakeAll(ws) == {ws}

\* An `if` in place of the loop: after one wake-up the call returns unchecked.
KeepWaiting_TestedOnce(t) == ~slept[t] /\ condition(cond[t], value[mtx[t]])

\* A wait-first loop: the call suspends before it first tests the condition.
KeepWaiting_WaitsFirst(t) == ~slept[t] \/ condition(cond[t], value[mtx[t]])

\* wait_while's loop test: the caller's condition on the current contents.
KeepWaiting(t) == condition(cond[t], value[mtx[t]])

\* The threads of S leave the condvar queue and go on to re-lock the mutex.
Unparked(S) == [u \in Threads |-> IF u \in S THEN "woken" ELSE pc[u]]

\* A notify that fails in its caller when it finds nobody to unpark.
Notified_FailsOnEmpty(t, S) ==
    IF S = {} THEN [Unparked(S) EXCEPT ![t] = "panicked"] ELSE Unparked(S)

\* What a notify call of thread t that unparks S does to the threads: the
\* caller itself goes on as it was.
Notified(t, S) == Unparked(S)

InitWith(ms) ==
    /\ built = ms
    /\ variant \in Variants
    /\ addr = [m \in Mutexes |-> 2 * m - 1]
    /\ pinned = [m \in Mutexes |-> FALSE]
    /\ owner = [m \in Mutexes |-> NoThread]
    /\ poisoned = [m \in Mutexes |-> FALSE]
    /\ value = [m \in Mutexes |-> 0]
    /\ pc = [t \in Threads |-> "idle"]
    /\ mtx = [t \in Threads |-> NoMutex]
    /\ cond = [t \in Threads |-> NoCondition]
    /\ slept = [t \in Threads |-> FALSE]
    /\ local = [t \in Threads |-> NoValue]
    /\ last = NoReturn
    /\ waiters = {}
    /\ cvMutex = NoMutex
    /\ incs = [m \in Mutexes |-> 0]
    /\ firstAddr = [m \in Mutexes |-> NoAddr]

\* No view of the contents is live before the first lock.
NoViews ==
    /\ views = [t \in Threads |-> <<>>]
    /\ pinmut = [t \in Threads |-> FALSE]

\* Threads that lock as often as they like, over integer contents, with
\* neither the releases nor the notifications recorded.
Plain ==
    /\ released = [m \in Mutexes |-> NoValue]
    /\ unpin = [m \in Mutexes |-> TRUE]
    /\ NoViews
    /\ rounds = [t \in Threads |-> Unlimited]
    /\ missed = "untracked"

\* One PinnedMutex and one PinnedCondvar, as in the crate's tests.
Init == InitWith({1}) /\ Plain

\* PinnedMutex::new leaves the mutex unpinned: the caller may still move it.
relocate(m, a) ==
    /\ m \in built
    /\ CanRelocate(m)
    /\ a \in Places(m) \ {addr[m]}
    /\ addr' = [addr EXCEPT ![m] = a]
    /\ UNCHANGED <<built, variant, pinned, owner, poisoned, value>>
    /\ last' = NoReturn
    /\ UNCHANGED <<threadVars, condvarVars, historyVars>>
    /\ UNCHANGED <<viewVars, rounds, missed>>

\* pin!(PinnedMutex::new(..)): from here on the caller holds Pin<&Self>.
pin(m) ==
    /\ m \in built
    /\ ~pinned[m]
    /\ pinned' = [pinned EXCEPT ![m] = TRUE]
    /\ UNCHANGED <<built, variant, addr, owner, poisoned, value>>
    /\ last' = NoReturn
    /\ UNCHANGED <<threadVars, condvarVars, historyVars>>
    /\ UNCHANGED <<viewVars, rounds, missed>>

\* PinnedMutex::lock is entered: the caller blocks in the engine's lock.
lock_begin(t, m) ==
    /\ pc[t] = "idle"
    /\ pinned[m]
    /\ rounds[t] > 0
    /\ pc' = [pc EXCEPT ![t] = "lock"]
    /\ mtx' = [mtx EXCEPT ![t] = m]
    /\ last' = NoReturn
    /\ UNCHANGED <<mutexVars, cond, slept, local, condvarVars, historyVars>>
    /\ rounds' = [rounds EXCEPT ![t] = IF @ = Unlimited THEN @ ELSE @ - 1]
    /\ UNCHANGED <<viewVars, missed>>

\* PinnedMutex::lock returns: the engine grants the lock; a poisoned std
\* mutex makes expect() panic, and the guard inside the error is dropped.
lock(t) ==
    /\ pc[t] = "lock"
    /\ RawLockFree(mtx[t])
    /\ IF LockIsErr(mtx[t])
         THEN /\ pc' = [pc EXCEPT ![t] = "panicked"]
              /\ mtx' = [mtx EXCEPT ![t] = NoMutex]
              /\ last' = NoReturn
              /\ UNCHANGED <<owner, firstAddr>>
         ELSE /\ owner' = RawLock(t, mtx[t])
              /\ pc' = [pc EXCEPT ![t] = "held"]
              /\ last' = Returned(t, "lock", NoCondition, FALSE, 0)
              /\ firstAddr' = IF firstAddr[mtx[t]] = NoAddr
                                THEN [firstAddr EXCEPT ![mtx[t]] = as_ref(t)]
                                ELSE firstAddr
              /\ UNCHANGED mtx
    /\ UNCHANGED <<built, variant, addr, pinned, poisoned, value>>
    /\ UNCHANGED <<cond, slept, local, condvarVars, incs, released>>
    /\ UNCHANGED <<viewVars, rounds, missed>>

\* Deref::deref: the holder reads the contents.
deref(t) ==
    /\ pc[t] = "held"
    /\ SharedBorrowOk(t)
    /\ local' = [local EXCEPT ![t] = value[mtx[t]]]
    /\ last' = NoReturn
    /\ UNCHANGED <<mutexVars, pc, mtx, cond, slept, condvarVars, historyVars>>
    /\ UNCHANGED <<viewVars, rounds, missed>>

\* A write that lands in a copy of the contents.
Store_Copy(m, v) == value

\* The holder's write through &mut T: the contents become v.
Store(m, v) == [value EXCEPT ![m] = v]

\* DerefMut::deref_mut: the holder writes back what it read, plus one.
deref_mut(t) ==
    /\ pc[t] = "held"
    /\ DerefMutAvailable(mtx[t])
    /\ ExclusiveBorrowOk(t)
    /\ local[t] # NoValue
    /\ local[t] < MaxValue
    /\ incs[mtx[t]] < MaxValue
    /\ value' = Store(mtx[t], local[t] + 1)
    /\ incs' = [incs EXCEPT ![mtx[t]] = @ + 1]
    /\ local' = [local EXCEPT ![t] = NoValue]
    /\ last' = NoReturn
    /\ UNCHANGED <<built, variant, addr, pinned, owner, poisoned>>
    /\ UNCHANGED <<pc, mtx, cond, slept, condvarVars, firstAddr, released>>
    /\ UNCHANGED <<viewVars, rounds, missed>>

\* The guard goes out of scope: its MutexGuard field unlocks the mutex.
drop_guard(t) ==
    /\ pc[t] = "held"
    /\ ExclusiveBorrowOk(t)
    /\ owner' = RawUnlock(mtx[t])
    /\ pc' = [pc EXCEPT ![t] = "idle"]
    /\ mtx' = [mtx EXCEPT ![t] = NoMutex]
    /\ local' = [local EXCEPT ![t] = NoValue]
    /\ last' = NoReturn
    /\ UNCHANGED <<built, variant, addr, pinned, poisoned, value>>
    /\ released' = Left(mtx[t])
    /\ UNCHANGED <<cond, slept, condvarVars, incs, firstAddr>>
    /\ UNCHANGED <<viewVars, rounds, missed>>

\* The holder panics inside its critical section: unwinding drops the guard,
\* and std's guard marks the mutex poisoned.
panic_in_scope(t) ==
    /\ pc[t] = "held"
    /\ owner' = RawUnlock(mtx[t])
    /\ poisoned' = [poisoned EXCEPT ![mtx[t]] = @ \/ Poisoning(variant)]
    /\ pc' = [pc EXCEPT ![t] = "panicked"]
    /\ mtx' = [mtx EXCEPT ![t] = NoMutex]
    /\ local' = [local EXCEPT ![t] = NoValue]
    /\ last' = NoReturn
    /\ UNCHANGED <<built, variant, addr, pinned, value>>
    /\ released' = Left(mtx[t])
    /\ views' = [views EXCEPT ![t] = <<>>]
    /\ pinmut' = [pinmut EXCEPT ![t] = FALSE]
    /\ UNCHANGED <<cond, slept, condvarVars, incs, firstAddr>>
    /\ UNCHANGED <<unpin, rounds, missed>>

\* A condvar that remembers a notification nobody was there to receive: the
\* next wait takes it and goes on without being queued.
Suspend_Remembered(t) ==
    /\ owner' = RawUnlock(mtx[t])
    /\ released' = Left(mtx[t])
    /\ IF missed = "yes"
         THEN /\ pc' = [pc EXCEPT ![t] = "woken"]
              /\ UNCHANGED condvarVars
         ELSE /\ waiters' = Park(t)
              /\ cvMutex' = mtx[t]
              /\ pc' = [pc EXCEPT ![t] = "waiting"]
    /\ slept' = [slept EXCEPT ![t] = TRUE]
    /\ last' = NoReturn
    /\ UNCHANGED mtx

\* Condvar::wait on the guard's mutex: in one step the caller is queued and
\* the lock released; with the condvar bound to another mutex it panics
\* instead, and unwinding drops the guard.
Suspend(t) ==
    IF BadMutex(mtx[t])
      THEN /\ owner' = RawUnlock(mtx[t])
           /\ released' = Left(mtx[t])
           /\ pc' = [pc EXCEPT ![t] = "panicked"]
           /\ mtx' = [mtx EXCEPT ![t] = NoMutex]
           /\ last' = Returned(t, "wait_panicked", NoCondition, FALSE, 0)
           /\ UNCHANGED <<slept, condvarVars>>
      ELSE /\ owner' = RawUnlock(mtx[t])
           /\ released' = Left(mtx[t])
           /\ waiters' = Park(t)
           /\ cvMutex' = mtx[t]
           /\ pc' = [pc EXCEPT ![t] = "waiting"]
           /\ slept' = [slept EXCEPT ![t] = TRUE]
           /\ last' = NoReturn
           /\ UNCHANGED mtx

\* PinnedCondvar::wait(guard).
wait(t) ==
    /\ HasCondvar(variant)
    /\ pc[t] = "held"
    /\ ExclusiveBorrowOk(t)
    /\ Suspend(t)
    /\ cond' = [cond EXCEPT ![t] = NoCondition]
    /\ local' = [local EXCEPT ![t] = NoValue]
    /\ UNCHANGED <<built, variant, addr, pinned, poisoned, value, incs, firstAddr>>
    /\ UNCHANGED <<viewVars, rounds, missed>>

\* PinnedCondvar::wait_while(guard, condition) is entered, lock held.
wait_while(t, c) ==
    /\ HasCondvar(variant)
    /\ pc[t] = "held"
    /\ ExclusiveBorrowOk(t)
    /\ pc' = [pc EXCEPT ![t] = "check"]
    /\ cond' = [cond EXCEPT ![t] = c]
    /\ slept' = [slept EXCEPT ![t] = FALSE]
    /\ local' = [local EXCEPT ![t] = NoValue]
    /\ last' = NoReturn
    /\ UNCHANGED <<mutexVars, mtx, condvarVars, historyVars>>
    /\ UNCHANGED <<viewVars, rounds, missed>>

\* One turn of wait_while's loop: the condition is evaluated on the pinned
\* contents; the caller suspends while it holds and returns once it does not.
check(t) ==
    /\ pc[t] = "check"
    /\ IF KeepWaiting(t)
         THEN /\ Suspend(t)
              /\ UNCHANGED cond
         ELSE /\ pc' = [pc EXCEPT ![t] = "held"]
              /\ last' = Returned(t, "wait_while", cond[t], slept[t], 0)
              /\ cond' = [cond EXCEPT ![t] = NoCondition]
              /\ slept' = [slept EXCEPT ![t] = FALSE]
              /\ UNCHANGED <<owner, mtx, condvarVars, released>>
    /\ UNCHANGED <<built, variant, addr, pinned, poisoned, value>>
    /\ UNCHANGED <<local, incs, firstAddr>>
    /\ UNCHANGED <<viewVars, rounds, missed>>

\* A woken waiter re-locks the mutex inside wait / wait_while.
relock(t) ==
    /\ pc[t] = "woken"
    /\ RawLockFree(mtx[t])
    /\ owner' = RawLock(t, mtx[t])
    /\ IF cond[t] = NoCondition
         THEN /\ pc' = [pc EXCEPT ![t] = "held"]
              /\ last' = Returned(t, "wait", NoCondition, TRUE, 0)
              /\ slept' = [slept EXCEPT ![t] = FALSE]
         ELSE /\ pc' = [pc EXCEPT ![t] = "check"]
              /\ last' = NoReturn
              /\ UNCHANGED slept
    /\ UNCHANGED <<built, variant, addr, pinned, poisoned, value>>
    /\ UNCHANGED <<mtx, cond, local, condvarVars, historyVars>>
    /\ UNCHANGED <<viewVars, rounds, missed>>

\* PinnedCondvar::notify_one, from a thread that is not blocked.
notify_one(t) ==
    /\ HasCondvar(variant)
    /\ pc[t] \in {"idle", "held"}
    /\ \E S \in WakeOne(waiters) :
         /\ waiters' = waiters \ S
         /\ cvMutex' = Rebind(waiters \ S)
         /\ pc' = Notified(t, S)
    /\ last' = Returned(t, "notify_one", NoCondition, FALSE, Cardinality(waiters))
    /\ UNCHANGED <<mutexVars, mtx, cond, slept, local, historyVars>>
    /\ missed' = IF missed = "no" /\ waiters = {} THEN "yes" ELSE missed
    /\ UNCHANGED <<viewVars, rounds>>

\* PinnedCondvar::notify_all, from a thread that is not blocked.
notify_all(t) ==
    /\ HasCondvar(variant)
    /\ pc[t] \in {"idle", "held"}
    /\ \E S \in WakeAll(waiters) :
         /\ waiters' = waiters \ S
         /\ cvMutex' = Rebind(waiters \ S)
         /\ pc' = Notified(t, S)
    /\ last' = Returned(t, "notify_all", NoCondition, FALSE, Cardinality(waiters))
    /\ UNCHANGED <<mutexVars, mtx, cond, slept, local, historyVars>>
    /\ missed' = IF missed = "no" /\ waiters = {} THEN "yes" ELSE missed
    /\ UNCHANGED <<viewVars, rounds>>

\* The wait engine wakes a waiter that nobody notified. parking_lot's
\* Condvar documents that it never does; the wrapper's wait_while loop is
\* written for an engine that may.
spurious_wake(t) ==
    /\ t \in waiters
    /\ waiters' = waiters \ {t}
    /\ cvMutex' = Rebind(waiters \ {t})
    /\ pc' = Unparked({t})
    /\ last' = NoReturn
    /\ UNCHANGED <<mutexVars, mtx, cond, slept, local, historyVars>>
    /\ UNCHANGED <<viewVars, rounds, missed>>

\* The steps of the wrappers over parking_lot's and std's engines.
Calls ==
    \/ \E m \in Mutexes : \E a \in Places(m) : relocate(m, a)
    \/ \E m \in Mutexes : pin(m)
    \/ \E t \in Threads : \E m \in Mutexes : lock_begin(t, m)
    \/ \E t \in Threads : lock(t)
    \/ \E t \in Threads : deref(t)
    \/ \E t \in Threads : deref_mut(t)
    \/ \E t \in Threads : drop_guard(t)
    \/ \E t \in Threads : panic_in_scope(t)
    \/ \E t \in Threads : wait(t)
    \/ \E t \in Threads : \E c \in Conditions : wait_while(t, c)
    \/ \E t \in Threads : check(t)
    \/ \E t \in Threads : relock(t)
    \/ \E t \in Threads : notify_one(t)
    \/ \E t \in Threads : notify_all(t)

\* The wrappers over a wait engine that may wake spuriously.
Next ==
    \/ Calls
    \/ \E t \in Threads : spurious_wake(t)

Spec == Init /\ [][Next]_vars

\* ------------------------------------------------------------ the views
\* let a = locked.as_ref(): one more Pin<&T> of the guarded contents.
hold_as_ref(t) ==
    /\ HasPinnedViews(variant)
    /\ pc[t] = "held"
    /\ SharedBorrowOk(t)
    /\ Len(views[t]) < MaxViews
    /\ views' = [views EXCEPT ![t] = Append(@, as_ref(t))]
    /\ last' = NoReturn
    /\ UNCHANGED <<mutexVars, threadVars, condvarVars, historyVars>>
    /\ UNCHANGED <<unpin, pinmut, rounds, missed>>

\* locked.as_mut(): the Pin<&mut T> of the guarded contents.
as_mut(t) ==
    /\ HasPinnedViews(variant)
    /\ pc[t] = "held"
    /\ ExclusiveBorrowOk(t)
    /\ pinmut' = [pinmut EXCEPT ![t] = TRUE]
    /\ last' = NoReturn
    /\ UNCHANGED <<mutexVars, threadVars, condvarVars, historyVars>>
    /\ UNCHANGED <<unpin, views, rounds, missed>>

\* MustPin::get through the i-th Pin<&T>: the contents at its address.
get(t, i) ==
    /\ pc[t] = "held"
    /\ i \in DOMAIN views[t]
    /\ last' = Returned(t, "get", NoCondition, FALSE, At(views[t][i]))
    /\ UNCHANGED <<mutexVars, threadVars, condvarVars, historyVars>>
    /\ UNCHANGED <<viewVars, rounds, missed>>

\* MustPin::inc through the Pin<&mut T>: the contents grow by one in place
\* and the previous contents are returned.
inc(t) ==
    /\ pc[t] = "held"
    /\ pinmut[t]
    /\ value[mtx[t]] < MaxValue
    /\ incs[mtx[t]] < MaxValue
    /\ value' = Store(mtx[t], value[mtx[t]] + 1)
    /\ incs' = [incs EXCEPT ![mtx[t]] = @ + 1]
    /\ last' = Returned(t, "inc", NoCondition, FALSE, value[mtx[t]])
    /\ UNCHANGED <<built, variant, addr, pinned, owner, poisoned>>
    /\ UNCHANGED <<threadVars, condvarVars, firstAddr, released>>
    /\ UNCHANGED <<viewVars, rounds, missed>>

\* A view ends: the temporary of as_mut() at the end of its statement, a
\* Pin<&T> binding at the end of its scope.
drop_view(t) ==
    /\ pc[t] = "held"
    /\ ~ExclusiveBorrowOk(t)
    /\ IF pinmut[t]
         THEN pinmut' = [pinmut EXCEPT ![t] = FALSE] /\ UNCHANGED views
         ELSE views' = [views EXCEPT ![t] = SubSeq(@, 1, Len(@) - 1)]
                /\ UNCHANGED pinmut
    /\ last' = NoReturn
    /\ UNCHANGED <<mutexVars, threadVars, condvarVars, historyVars>>
    /\ UNCHANGED <<unpin, rounds, missed>>

\* Contents that are Unpin, as the integers of mutate_through_lock, or not,
\* as MustPin with its PhantomPinned; each thread locks once, as the tests do.
InitViews ==
    /\ InitWith({1})
    /\ released = [m \in Mutexes |-> NoValue]
    /\ unpin \in {f \in [Mutexes -> BOOLEAN] : \A m \in Mutexes \ {1} : f[m]}
    /\ NoViews
    /\ rounds = [t \in Threads |-> 1]
    /\ missed = "untracked"

\* The guard's four views and what the tests do through them.
NextViews ==
    \/ \E m \in Mutexes : pin(m)
    \/ \E t \in Threads : \E m \in Mutexes : lock_begin(t, m)
    \/ \E t \in Threads : lock(t)
    \/ \E t \in Threads : deref(t)
    \/ \E t \in Threads : deref_mut(t)
    \/ \E t \in Threads : hold_as_ref(t)
    \/ \E t \in Threads : as_mut(t)
    \/ \E t \in Threads : \E i \in 1..MaxViews : get(t, i)
    \/ \E t \in Threads : inc(t)
    \/ \E t \in Threads : drop_view(t)
    \/ \E t \in Threads : drop_guard(t)

SpecViews == InitViews /\ [][NextViews]_vars

\* ------------------------------------------- one condvar, several mutexes
\* The mutex thread t locks: the threads are dealt out over the mutexes.
MutexOf(t) == ((t - 1) % NumMutexes) + 1

\* Every PinnedMutex is there beside the one PinnedCondvar; each thread
\* locks its mutex once.
InitShared ==
    /\ InitWith(Mutexes)
    /\ variant = "parking_lot"
    /\ released = [m \in Mutexes |-> NoValue]
    /\ unpin = [m \in Mutexes |-> TRUE]
    /\ NoViews
    /\ rounds = [t \in Threads |-> 1]
    /\ missed = "untracked"

\* Waits and notifications on the condvar under the guards of the mutexes.
NextShared ==
    \/ \E m \in Mutexes : pin(m)
    \/ \E t \in Threads : lock_begin(t, MutexOf(t))
    \/ \E t \in Threads : lock(t)
    \/ \E t \in Threads : drop_guard(t)
    \/ \E t \in Threads : wait(t)
    \/ \E t \in Threads : \E c \in Conditions : wait_while(t, c)
    \/ \E t \in Threads : check(t)
    \/ \E t \in Threads : relock(t)
    \/ \E t \in Threads : notify_one(t)
    \/ \E t \in Threads : notify_all(t)

SpecShared == InitShared /\ [][NextShared]_vars

\* The same, with the notify calls that find the queue empty recorded.
InitNotify ==
    /\ InitWith(Mutexes)
    /\ variant = "parking_lot"
    /\ released = [m \in Mutexes |-> NoValue]
    /\ unpin = [m \in Mutexes |-> TRUE]
    /\ NoViews
    /\ rounds = [t \in Threads |-> 1]
    /\ missed = "no"

SpecNotify == InitNotify /\ [][NextShared]_vars

\* ------------------------------------------------------------ cond_var
\* The thread that waits for the counter in the cond_var test; the others
\* raise the counter and notify.
Waiter == 1
Notifiers == Threads \ {Waiter}

\* parking_lot's engine, one mutex and one condvar; every thread locks once.
InitOnce ==
    /\ InitWith({1})
    /\ variant = "parking_lot"
    /\ released = [m \in Mutexes |-> NoValue]
    /\ unpin = [m \in Mutexes |-> TRUE]
    /\ NoViews
    /\ rounds = [t \in Threads |-> 1]
    /\ missed = "untracked"

\* The waiter locks and calls wait_while(counter == 0); a notifier locks,
\* raises the counter, notifies, before or after it lets its guard go.
NextCondVar ==
    \/ \E m \in Mutexes : pin(m)
    \/ \E t \in Threads : lock_begin(t, 1)
    \/ \E t \in Threads : lock(t)
    \/ \E t \in Notifiers : deref(t)
    \/ \E t \in Notifiers : deref_mut(t)
    \/ \E t \in Threads : drop_guard(t)
    \/ wait_while(Waiter, "is_zero")
    \/ check(Waiter)
    \/ relock(Waiter)
    \/ \E t \in Notifiers : notify_one(t)
    \/ \E t \in Notifiers : notify_all(t)

\* Threads run on: a critical section comes to its end, a woken waiter
\* re-locks the mutex once it stays free, and wait_while's loop goes on.
FairCondVar ==
    /\ \A t \in Threads : WF_vars(drop_guard(t))
    /\ WF_vars(relock(Waiter))
    /\ WF_vars(check(Waiter))

SpecCondVar == InitOnce /\ [][NextCondVar]_vars /\ FairCondVar

\* ------------------------------------------------------------ workload
\* Each thread locks once, reads and writes the contents, and lets go.
NextWorkload ==
    \/ \E m \in Mutexes : pin(m)
    \/ \E t \in Threads : lock_begin(t, 1)
    \/ \E t \in Threads : lock(t)
    \/ \E t \in Threads : deref(t)
    \/ \E t \in Threads : deref_mut(t)
    \/ \E t \in Threads : drop_guard(t)

\* Every thread is scheduled again and again: the mutex gets pinned, each
\* thread calls lock, is granted the lock once it stays free, and leaves
\* its critical section.
FairWorkload ==
    /\ WF_vars(pin(1))
    /\ \A t \in Threads :
         /\ WF_vars(lock_begin(t, 1))
         /\ WF_vars(lock(t))
         /\ WF_vars(drop_guard(t))

SpecWorkload == InitOnce /\ [][NextWorkload]_vars /\ FairWorkload

\* ----------------------------------------------------- critical sections
\* Threads that each lock the one mutex MaxRounds times, with every release
\* recorded.
InitSections ==
    /\ InitWith({1})
    /\ released = [m \in Mutexes |-> 0]
    /\ unpin = [m \in Mutexes |-> TRUE]
    /\ NoViews
    /\ rounds = [t \in Threads |-> MaxRounds]
    /\ missed = "untracked"

\* lock, read, write, release: the steps of the mutate_through_lock tests,
\* and a panic in the critical section.
NextSections ==
    \/ \E m \in Mutexes : \E a \in Places(m) : relocate(m, a)
    \/ \E m \in Mutexes : pin(m)
    \/ \E t \in Threads : \E m \in Mutexes : lock_begin(t, m)
    \/ \E t \in Threads : lock(t)
    \/ \E t \in Threads : deref(t)
    \/ \E t \in Threads : deref_mut(t)
    \/ \E t \in Threads : drop_guard(t)
    \/ \E t \in Threads : panic_in_scope(t)

SpecSections == InitSections /\ [][NextSections]_vars

\* The wrappers over parking_lot's wait engine, which never wakes spuriously.
NextParkingLot == Calls

SpecParkingLot == Init /\ [][NextParkingLot]_vars
\* ------------------------------------------------------------------ claims
\* The guards of mutex m that are live.
Guards(m) == {t \in Threads : HasGuard(t, m)}

\* C1: in every reachable state at most one PinnedMutexGuard of a given
\* PinnedMutex is live, it belongs to the thread the engine granted the lock
\* to, and a thread suspended inside wait / wait_while holds none.
C1_MutualExclusion ==
    \A m \in Mutexes :
        /\ Cardinality(Guards(m)) <= 1
        /\ \A t \in Guards(m) : owner[m] = t
        /\ \A t \in Threads : pc[t] \in {"waiting", "woken"} => t \notin Guards(m)

\* One thread holds the guard while a second is suspended in a wait on the
\* same mutex and a third is blocked in lock.
C1_Witness ==
    \E t, u, w \in Threads :
        /\ HasGuard(t, 1)
        /\ pc[u] = "waiting" /\ mtx[u] = 1
        /\ pc[w] = "lock" /\ mtx[w] = 1

\* C2: whenever no thread is between its read and its write of the value,
\* the value equals the number of increments completed so far: N completed
\* lock / read / write value+1 / release rounds leave exactly N.
C2_NoLostUpdate ==
    \A m \in Mutexes :
        (\A t \in Threads : mtx[t] = m => local[t] = NoValue) => value[m] = incs[m]

\* MaxValue increments are complete, every guard is released and every
\* thread is back outside the mutex.
C2_Witness ==
    /\ incs[1] = MaxValue
    /\ value[1] = MaxValue
    /\ owner[1] = NoThread
    /\ \A t \in Threads : pc[t] = "idle"

\* Thread t is inside wait / wait_while and not running.
Suspended(t) == pc[t] \in {"waiting", "woken"}

\* While a caller of wait is suspended it does not own the lock; it is
\* suspended and not yet woken exactly while it is on the condvar's queue,
\* so there is no state with the lock given up and the caller not queued;
\* and wait has returned only to a caller that owns its mutex's lock again.
C3_WaitState ==
    \A t \in Threads :
        /\ Suspended(t) => owner[mtx[t]] # t
        /\ pc[t] = "waiting" <=> t \in waiters
        /\ (last.op = "wait" /\ last.thread = t) =>
               pc[t] = "held" /\ owner[mtx[t]] = t

\* The step that suspends a caller frees the lock and queues the caller at
\* once; a suspended caller leaves the suspension only by owning the lock
\* of the mutex its guard was of.
C3_WaitStep ==
    \A t \in Threads :
        /\ (pc[t] \in {"held", "check"} /\ pc'[t] = "waiting") =>
               /\ owner'[mtx[t]] = NoThread
               /\ t \in waiters'
               /\ mtx'[t] = mtx[t]
        /\ Suspended(t) =>
               /\ mtx'[t] = mtx[t]
               /\ pc'[t] \in {"waiting", "woken"} \/ owner'[mtx[t]] = t

\* C3: wait consumes the guard, frees the lock for the whole suspension
\* (release and queueing are one step) and returns only with the lock of the
\* same PinnedMutex owned again.
C3_WaitProtocol == []C3_WaitState /\ [][C3_WaitStep]_vars

\* Thread t is suspended in wait and thread u's lock call has just returned
\* a guard of the same mutex.
C3_Witness ==
    \E t, u \in Threads :
        /\ pc[t] = "waiting" /\ cond[t] = NoCondition
        /\ HasGuard(u, mtx[t])
        /\ last = Returned(u, "lock", NoCondition, FALSE, 0)

\* wait_while has returned only to a caller that holds the lock and whose
\* condition is false on the contents.
C4_ReturnState ==
    last.op = "wait_while" =>
        /\ pc[last.thread] = "held"
        /\ owner[mtx[last.thread]] = last.thread
        /\ ~condition(last.cond, value[mtx[last.thread]])

\* A caller inside wait_while whose condition holds on the contents does not
\* return: its next step suspends it (again) on the condvar.
C4_LoopStep ==
    \A t \in Threads :
        (pc[t] = "check" /\ condition(cond[t], value[mtx[t]])) =>
            \/ pc'[t] = "check"
            \/ pc'[t] = "waiting" /\ t \in waiters'

\* C4: the condition is the sole gate of wait_while: it returns only with
\* the condition false on the contents under the held lock, and a wake-up
\* (notify_one, notify_all, spurious) with the condition still true
\* suspends the caller again.
C4_PredicateIsSoleGate == []C4_ReturnState /\ [][C4_LoopStep]_vars

\* A wait_while on `counter == 0` that had suspended has returned, and the
\* counter it returns on is no longer 0.
C4_Witness ==
    /\ last.op = "wait_while"
    /\ last.cond = "is_zero"
    /\ last.slept
    /\ value[mtx[last.thread]] >= 1

\* The first test of a wait_while call finds the condition false: the next
\* step of the caller returns the guard, with the lock never given up, the
\* caller never queued and no waiter woken.
C5_EntryStep ==
    \A t \in Threads :
        (pc[t] = "check" /\ ~slept[t] /\ ~condition(cond[t], value[mtx[t]])) =>
            \/ pc'[t] = "check" /\ owner'[mtx[t]] = t
            \/ /\ pc'[t] = "held"
               /\ owner'[mtx[t]] = t
               /\ last' = Returned(t, "wait_while", cond[t], FALSE, 0)
               /\ UNCHANGED <<waiters, cvMutex, value, mtx>>

\* A wait_while call that has not suspended holds the lock throughout, and
\* one that returned without suspending found its condition false.
C5_EntryState ==
    /\ \A t \in Threads : (pc[t] = "check" /\ ~slept[t]) => owner[mtx[t]] = t
    /\ (last.op = "wait_while" /\ ~last.slept) =>
           ~condition(last.cond, value[mtx[last.thread]])

\* C5: wait_while with the condition already false returns at once with the
\* guard: no suspension, no release of the lock, no notification needed;
\* the same on every later call with the returned guard.
C5_ReturnsImmediately == []C5_EntryState /\ [][C5_EntryStep]_vars

\* wait_while on `counter == 0` has returned without ever suspending, with
\* the counter at 1 or more and nobody on the condvar to be notified.
C5_Witness ==
    /\ last = Returned(last.thread, "wait_while", "is_zero", FALSE, 0)
    /\ last.thread \in Threads
    /\ value[mtx[last.thread]] >= 1
    /\ waiters = {}

\* From the first lock on, the pinned view of every live guard, and the
\* contents' slot itself, are at the address the first lock observed.
C6_AddressState ==
    \A m \in Mutexes :
        firstAddr[m] # NoAddr =>
            /\ DataAddr(addr[m]) = firstAddr[m]
            /\ \A t \in Guards(m) : as_ref(t) = firstAddr[m]

\* No step moves a pinned mutex or unpins it.
C6_AddressStep ==
    \A m \in Mutexes : pinned[m] => pinned'[m] /\ addr'[m] = addr[m]

\* C6: once the PinnedMutex is pinned, the address of its contents is the
\* same on the first lock, on every later lock by any thread and on every
\* guard wait / wait_while returns; no operation relocates the slot.
C6_AddressStability == []C6_AddressState /\ [][C6_AddressStep]_vars

\* The mutex was moved before it was pinned, its contents have changed, and
\* a guard returned by a wait that had suspended still views the contents
\* at the address of the first lock.
C6_Witness ==
    /\ last.op \in {"wait", "wait_while"}
    /\ last.slept
    /\ addr[1] = 2
    /\ value[1] >= 1
    /\ as_ref(last.thread) = firstAddr[1]

\* The waiters a step takes out of the suspended state.
Woken == {t \in Threads : pc[t] = "waiting" /\ pc'[t] # "waiting"}

\* After notify_one all but at most one of the waiters it found are still
\* queued and suspended.
C7_NotifyOneState ==
    last.op = "notify_one" =>
        /\ Cardinality(waiters) + 1 >= last.found
        /\ \A t \in waiters : pc[t] = "waiting"

\* A notify_one step takes at most one waiter out of the suspended state,
\* and a waiter leaves it only in a notify_one or notify_all step.
C7_NotifyOneStep ==
    /\ last'.op = "notify_one" => Cardinality(Woken) <= 1
    /\ Woken # {} => last'.op \in {"notify_one", "notify_all"}

\* C7: with k >= 2 threads suspended on the condvar, one notify_one moves at
\* most one of them out of the suspended state; the others stay suspended
\* until a further notification.
C7_NotifyOneWakesAtMostOne == []C7_NotifyOneState /\ [][C7_NotifyOneStep]_vars

\* notify_one found two or more waiters and all but one are still queued.
C7_Witness ==
    /\ last.op = "notify_one"
    /\ last.found >= 2
    /\ Cardinality(waiters) + 1 = last.found
    /\ \E t \in Threads : pc[t] = "woken"

\* After notify_all nobody is left suspended on the condvar, and of the
\* woken threads at most one at a time is past its re-lock.
C8_NotifyAllState ==
    /\ last.op = "notify_all" =>
           waiters = {} /\ \A t \in Threads : pc[t] # "waiting"
    /\ \A t, u \in Threads :
           (HasGuard(t, mtx[u]) /\ HasGuard(u, mtx[u])) => t = u
    /\ \A t \in Threads : pc[t] = "woken" => owner[mtx[t]] # t

\* A notify_all step wakes every waiter, and a woken thread stays blocked
\* while the lock is owned.
C8_NotifyAllStep ==
    /\ last'.op = "notify_all" =>
           \A t \in Threads : pc[t] = "waiting" => pc'[t] = "woken"
    /\ \A t \in Threads :
           (pc[t] = "woken" /\ owner[mtx[t]] # NoThread) => pc'[t] = "woken"

\* C8: notify_all wakes every thread suspended on the condvar at the call;
\* the woken threads re-lock one at a time and the rest stay blocked.
C8_NotifyAllWakesAll == []C8_NotifyAllState /\ [][C8_NotifyAllStep]_vars

\* notify_all found two or more waiters and they are all woken, contending
\* for the lock.
C8_Witness ==
    /\ last.op = "notify_all"
    /\ last.found >= 2
    /\ Cardinality({t \in Threads : pc[t] = "woken"}) >= last.found

\* A notify_one / notify_all step that finds the condvar's queue empty
\* changes nothing but the record of the call: lock state, holder, contents,
\* waiter set and every thread (the caller did not fail) are as before.
C9_NotifyEmptyStep ==
    (last'.op \in {"notify_one", "notify_all"} /\ waiters = {}) =>
        /\ last'.found = 0
        /\ UNCHANGED <<built, variant, addr, pinned, owner, poisoned, value>>
        /\ UNCHANGED <<pc, mtx, cond, slept, local>>
        /\ UNCHANGED <<waiters, cvMutex, incs, firstAddr>>

\* C9: notify_one and notify_all with no thread suspended on the condvar
\* are no-ops that do not fail, also for a caller that holds no guard.
C9_NotifyWithoutWaitersIsNoOp == [][C9_NotifyEmptyStep]_vars

\* notify_all has returned to a caller without a guard, having found no
\* waiter, while another thread holds the mutex.
C9_Witness ==
    /\ last.op = "notify_all"
    /\ last.found = 0
    /\ pc[last.thread] = "idle"
    /\ waiters = {}
    /\ owner[1] # NoThread

\* A poisoned mutex belongs to a poisoning engine, is owned by nobody and
\* has no live guard, and no lock call has returned a guard of it.
C10_PoisonState ==
    /\ \A m \in Mutexes :
           poisoned[m] =>
               Poisoning(variant) /\ owner[m] = NoThread /\ Guards(m) = {}
    /\ ~Poisoning(variant) => \A m \in Mutexes : ~poisoned[m]

\* Poison stays; a lock call on a poisoned mutex ends in a panic, and a
\* lock call ends in a panic only on a poisoned mutex of a poisoning engine.
C10_PoisonStep ==
    /\ \A m \in Mutexes : poisoned[m] => poisoned'[m]
    /\ \A t \in Threads :
           (pc[t] = "lock" /\ pc'[t] # "lock") =>
               IF Poisoning(variant) /\ poisoned[mtx[t]]
                 THEN pc'[t] = "panicked" /\ owner'[mtx[t]] = NoThread
                 ELSE pc'[t] = "held" /\ owner'[mtx[t]] = t

\* C10: once the underlying lock of a poisoning engine is poisoned, every
\* later PinnedMutex::lock panics and returns no guard; with an engine that
\* never poisons, lock never fails.
C10_FatalOnPoison == []C10_PoisonState /\ [][C10_PoisonStep]_vars

\* The mutex of std.rs is poisoned and two threads have panicked: the
\* holder inside its critical section and a later caller of lock.
C10_Witness ==
    /\ variant = "std"
    /\ poisoned[1]
    /\ Cardinality({t \in Threads : pc[t] = "panicked"}) >= 2

\* ---------------------------------------------------------------- C11
\* C11: the contents a thread finds right after lock() granted it the mutex
\* are the contents the previous holder left at its release, or the initial
\* contents if nobody held the mutex before; and a free mutex holds what was
\* left in it.
C11_HandOff ==
    /\ \A t \in Threads :
         last = Returned(t, "lock", NoCondition, FALSE, 0)
           => value[mtx[t]] = released[mtx[t]]
    /\ \A m \in Mutexes : owner[m] = NoThread => value[m] = released[m]
    /\ \A t \in Threads :
         (pc[t] = "held" /\ local[t] # NoValue /\ value[mtx[t]] = released[mtx[t]])
           => local[t] = released[mtx[t]]

\* A thread in its first critical section has just been granted the mutex
\* and finds what another thread wrote and left.
C11_Witness ==
    \E t \in Threads :
      /\ last = Returned(t, "lock", NoCondition, FALSE, 0)
      /\ rounds[t] = MaxRounds - 1
      /\ value[mtx[t]] >= 1
      /\ released[mtx[t]] = value[mtx[t]]

\* ---------------------------------------------------------------- C12
\* C12: in every variant, lib.rs with its pending `impl Drop` included, a
\* guard that goes out of scope, by the end of its block or by a panic,
\* leaves the mutex free: the lock is taken only while a guard of it is
\* live, so the engine grants the next lock call.
C12_ReleaseState ==
    /\ \A m \in Mutexes : owner[m] # NoThread => HasGuard(owner[m], m)
    /\ \A t \in Threads :
         (pc[t] = "lock" /\ Guards(mtx[t]) = {}) => RawLockFree(mtx[t])

C12_ReleaseStep ==
    \A t \in Threads :
      (pc[t] = "held" /\ pc'[t] \in {"idle", "panicked"})
        => owner'[mtx[t]] = NoThread

C12_ReleasedOnScopeExit == []C12_ReleaseState /\ [][C12_ReleaseStep]_vars

\* lib.rs: a thread in its first critical section has been granted the
\* mutex after another thread wrote through its guard and let it go.
C12_Witness ==
    /\ variant = "lib"
    /\ \E t \in Threads :
         /\ last = Returned(t, "lock", NoCondition, FALSE, 0)
         /\ rounds[t] = MaxRounds - 1
         /\ owner[mtx[t]] = t
         /\ incs[mtx[t]] >= 1

\* ---------------------------------------------------------------- C13
\* C13: the plain mutable view is to be had only of contents that are Unpin:
\* of address-stable contents deref_mut is not there to call, and no write
\* goes through it; as_mut stays obtainable whatever the contents are, and
\* inc() through it changes the contents where they are.
C13_GatingState ==
    \A t \in Threads :
      /\ (pc[t] = "held" /\ ~unpin[mtx[t]]) => ~ENABLED deref_mut(t)
      /\ (pc[t] = "held" /\ HasPinnedViews(variant) /\ views[t] = <<>>
            /\ ~pinmut[t]) => ENABLED as_mut(t)

C13_GatingStep ==
    \A t \in Threads :
      /\ (pc[t] = "held" /\ local[t] # NoValue /\ local'[t] = NoValue
            /\ value'[mtx[t]] # value[mtx[t]]) => unpin[mtx[t]]
      /\ (pc[t] = "held" /\ ~unpin[mtx[t]] /\ value'[mtx[t]] # value[mtx[t]])
           => /\ pinmut[t]
              /\ last'.op = "inc"
              /\ value'[mtx[t]] = value[mtx[t]] + 1
              /\ addr' = addr

C13_MutabilityGating == []C13_GatingState /\ [][C13_GatingStep]_vars

\* Contents that are not Unpin were mutated in place through as_mut.
C13_Witness ==
    \E t \in Threads :
      /\ pc[t] = "held"
      /\ ~unpin[mtx[t]]
      /\ pinmut[t]
      /\ last = Returned(t, "inc", NoCondition, FALSE, 0)
      /\ value[mtx[t]] = 1

\* ---------------------------------------------------------------- C14
\* C14: the Pin<&T> views taken from one live guard, however many, all show
\* the same contents, those the mutex holds, and these do not change while
\* such a view lives; a Pin<&mut T> of a guard never lives together with
\* another view of that guard.
C14_AliasState ==
    \A t \in Threads :
      /\ (views[t] # <<>> \/ pinmut[t]) => pc[t] = "held"
      /\ \A i, j \in DOMAIN views[t] :
           /\ At(views[t][i]) = At(views[t][j])
           /\ At(views[t][i]) = value[mtx[t]]
      /\ pinmut[t] => views[t] = <<>>

C14_AliasStep ==
    \A t \in Threads :
      (views[t] # <<>> /\ views'[t] # <<>>)
        => value'[mtx[t]] = value[mtx[t]]

C14_AliasingSafety == []C14_AliasState /\ [][C14_AliasStep]_vars

\* As in ref_alias: MaxViews views of one guard are live and get() through
\* one of them has returned the contents, which an earlier write had set.
C14_Witness ==
    \E t \in Threads :
      /\ Len(views[t]) = MaxViews
      /\ value[mtx[t]] >= 1
      /\ last = Returned(t, "get", NoCondition, FALSE, value[mtx[t]])

\* ---------------------------------------------------------------- C15
\* C15: on MustPin contents, which only as_mut can change, the increments
\* add up in the stored contents: starting from 0 the k-th inc() returns
\* k - 1 as the previous contents and leaves k stored, and get() through
\* as_ref returns the number of increments made.
C15_Cumulative ==
    /\ (last.op = "inc" /\ ~unpin[mtx[last.thread]]) =>
         /\ last.found = incs[mtx[last.thread]] - 1
         /\ value[mtx[last.thread]] = incs[mtx[last.thread]]
    /\ (last.op = "get" /\ ~unpin[mtx[last.thread]]) =>
         /\ last.found = incs[mtx[last.thread]]
         /\ last.found = value[mtx[last.thread]]

\* As in pinned_method: after two increments get() has returned 2.
C15_Witness ==
    \E t \in Threads :
      /\ last.op = "get"
      /\ last.thread = t
      /\ ~unpin[mtx[t]]
      /\ last.found >= 2
      /\ incs[mtx[t]] = last.found

\* ---------------------------------------------------------------- C16
\* C16 as stated: no wait or wait_while call on the condvar fails, whichever
\* mutex its guard belongs to, and a waiter comes back holding the mutex it
\* went to sleep with.
C16_SameMutexStep ==
    \A t \in Threads :
      pc[t] \in {"waiting", "woken"} =>
        /\ mtx'[t] = mtx[t]
        /\ pc'[t] \in {"held", "check"} => owner'[mtx[t]] = t

C16_AnyMutexAtAnyTime ==
    [](last.op # "wait_panicked") /\ [][C16_SameMutexStep]_vars

\* C16, amended: the condvar serves one mutex at a time. A wait or
\* wait_while call suspends only if every thread still queued on the condvar
\* waits with the caller's mutex, and it panics exactly when one of them
\* waits with another mutex; once its queue is empty the condvar takes the
\* guard of any mutex. A waiter comes back holding the mutex it went to
\* sleep with.
C16_OneMutexState ==
    /\ cvMutex # NoMutex <=> waiters # {}
    /\ \A w \in waiters : mtx[w] = cvMutex

C16_OneMutexStep ==
    \A t \in Threads :
      /\ (pc[t] \in {"held", "check"} /\ pc'[t] = "waiting")
           => \A w \in waiters : mtx[w] = mtx[t]
      /\ (pc[t] \in {"held", "check"} /\ last' = Returned(t, "wait_panicked", NoCondition, FALSE, 0))
           => \E w \in waiters : mtx[w] # mtx[t]

C16_OneMutexAtATime ==
    /\ []C16_OneMutexState
    /\ [][C16_OneMutexStep /\ C16_SameMutexStep]_vars

\* The condvar has served two mutexes in turn: a waiter of mutex 1 was
\* notified and is yet to re-lock, and after it a waiter of mutex 2 slept,
\* was notified and has returned from wait holding mutex 2.
C16_Witness ==
    \E t, u \in Threads :
      /\ last = Returned(t, "wait", NoCondition, TRUE, 0)
      /\ mtx[t] = 2
      /\ owner[2] = t
      /\ pc[u] = "woken"
      /\ mtx[u] = 1

\* ---------------------------------------------------------------- C17
\* C17: whenever wait_while is about to evaluate its condition, the first
\* time and after every wake-up, the calling thread owns the lock and no
\* other thread has a guard of the mutex; the condition is never evaluated
\* by a suspended caller, and nothing changes the contents between the
\* re-lock and the evaluation.
C17_EvaluationState ==
    \A t \in Threads :
      pc[t] = "check" =>
        /\ owner[mtx[t]] = t
        /\ Guards(mtx[t]) = {t}
        /\ t \notin waiters

C17_EvaluationStep ==
    \A t \in Threads :
      /\ pc[t] = "check" => value'[mtx[t]] = value[mtx[t]]
      /\ ~(pc[t] \in {"waiting", "woken"} /\ last'.op = "wait_while"
            /\ last'.thread = t)

C17_PredicateUnderLock == []C17_EvaluationState /\ [][C17_EvaluationStep]_vars

\* A wait_while caller that slept and was woken has re-locked the mutex and
\* is about to evaluate its condition again, on contents another thread
\* wrote meanwhile, while another thread is blocked in lock().
C17_Witness ==
    \E t, u \in Threads :
      /\ pc[t] = "check"
      /\ slept[t]
      /\ value[mtx[t]] >= 1
      /\ pc[u] = "lock"
      /\ mtx[u] = mtx[t]

\* ---------------------------------------------------------------- C18
\* The counter is no longer 0 and a notification has just been issued while
\* the waiter was inside wait_while(counter == 0), suspended or woken.
C18_NotifiedAfterSet ==
    /\ pc[Waiter] \in {"waiting", "woken"}
    /\ cond[Waiter] = "is_zero"
    /\ value[mtx[Waiter]] >= 1
    /\ last.op \in {"notify_one", "notify_all"}

\* The waiter's wait_while has returned after a suspension, with the lock
\* owned again and the counter no longer 0.
C18_WaiterReturned ==
    /\ last = Returned(Waiter, "wait_while", "is_zero", TRUE, 0)
    /\ owner[mtx[Waiter]] = Waiter
    /\ value[mtx[Waiter]] >= 1

\* C18: no wake-up is lost. Once a notifier has raised the counter and
\* called notify_one or notify_all while the waiter was suspended in
\* wait_while(counter == 0), the waiter eventually re-locks the mutex and
\* its wait_while returns with the counter raised.
C18_NoLostWakeup == C18_NotifiedAfterSet ~> C18_WaiterReturned

\* The waiter's wait_while has returned after a suspension and the one
\* increment made is that of a notifier that has left its critical section.
C18_Witness ==
    /\ C18_WaiterReturned
    /\ value[1] = 1
    /\ \E t \in Notifiers : pc[t] = "idle" /\ rounds[t] = 0

\* ---------------------------------------------------------------- C19
\* Every thread has made its one lock call and left its critical section,
\* and the lock is free.
AllDone ==
    /\ \A t \in Threads : pc[t] = "idle" /\ rounds[t] = 0
    /\ \A m \in Mutexes : owner[m] = NoThread

\* C19: with parking_lot's engine, which does not poison, and threads that
\* each lock once, work on the contents and release, every thread comes to
\* its end under weak fairness: in whatever order the lock is granted, the
\* system reaches the state where all threads are done and the lock is
\* free, and stays there.
C19_Termination == <>[]AllDone

\* All threads are done, the lock is free, and the contents carry the
\* increments that were made.
C19_Witness ==
    /\ AllDone
    /\ incs[1] >= 2
    /\ value[1] = incs[1]

\* ---------------------------------------------------------------- C20
\* A thread leaves the suspended state only in the step of a notify call
\* that finds it on the queue; wait never returns without suspending, and
\* wait_while whose condition is true suspends; the step that suspends the
\* caller frees the lock.
C20_ForgetStep ==
    \A t \in Threads :
      /\ (pc'[t] = "woken" /\ pc[t] # "woken") =>
           /\ pc[t] = "waiting"
           /\ t \in waiters
           /\ last'.op \in {"notify_one", "notify_all"}
           /\ last'.found >= 1
      /\ last' = Returned(t, "wait", NoCondition, TRUE, 0) => pc[t] = "woken"
      /\ (pc[t] = "check" /\ condition(cond[t], value[mtx[t]])) =>
           pc'[t] \in {"check", "waiting", "panicked"}
      /\ (pc[t] \in {"held", "check"} /\ pc'[t] = "waiting") =>
           owner'[mtx[t]] = NoThread

\* Whatever notifications went by earlier, a waiting thread is on the queue
\* and does not own the lock.
C20_ForgetState ==
    \A t \in Threads :
      pc[t] = "waiting" => t \in waiters /\ owner[mtx[t]] # t

\* C20: notifications are not remembered. A notify_one or notify_all that
\* finds nobody suspended leaves nothing behind: a thread that calls wait,
\* or wait_while with a true condition, afterwards still suspends and frees
\* the lock, and it stays suspended until a notify call issued while it is
\* suspended.
C20_NotificationsForgotten == []C20_ForgetState /\ [][C20_ForgetStep]_vars

\* A notify call found the queue empty, and a thread is now suspended in
\* wait, queued, with the lock free.
C20_Witness ==
    /\ missed = "yes"
    /\ \E t \in Threads :
         /\ pc[t] = "waiting"
         /\ cond[t] = NoCondition
         /\ t \in waiters
         /\ owner[mtx[t]] = NoThread

====
